---- MODULE Spec2Model ----
\* deno-box: the seeded word sampler (random-name.ts) and the project name
\* resolver (main.ts getProjectName, fed by options.ts getOptions).
\*
\* Strings are sequences of one-character strings, so that concatenation,
\* capitalisation and number formatting are computed and not assumed.
\* A value of the seeded stream is the fraction rnd / PrngModulus in [0,1).
EXTENDS Integers, Sequences, FiniteSets, TLC

VARIABLES
    opts,       \* sampler harness: the RandomNameOptions both instances get
    gen,        \* sampler harness: instance id -> RandomName object (or NoGen)
    out,        \* sampler harness: instance id -> names returned by next()
    args,       \* resolver: positional command line arguments (parseArgs _)
    copyArg,    \* resolver: the --copy flag as parsed (absent = default false)
    options,    \* resolver: the Options object getOptions returns
    taken,      \* resolver: names of the entries that exist under root
    pc,         \* resolver: position in getProjectName
    x,          \* resolver: copy mode candidate (local x)
    i,          \* resolver: copy mode counter (local i)
    randomName, \* resolver: the RandomName instance of fresh mode
    projectName,\* resolver: fresh mode candidate (local projectName)
    result,     \* resolver: the value getProjectName returned
    probed,     \* resolver: log of the candidates handed to existsSync
    draws,      \* resolver: number of next() calls made (saturating)
    optAdd,     \* main: options.add has at least one library
    optVscode,  \* main: options.vscode
    mainPc,     \* main: position in main
    ran,        \* main: the external steps run so far, each with its outcome
    exitCode    \* main: exit code of the process (NoExit while it runs)

vars == <<opts, gen, out, args, copyArg, options, taken, pc, x, i,
          randomName, projectName, result, probed, draws,
          optAdd, optVscode, mainPc, ran, exitCode>>

samplerVars == <<opts, gen, out>>
resolverVars == <<args, copyArg, options, taken, pc, x, i, randomName,
                  projectName, result, probed, draws>>
mainVars == <<optAdd, optVscode, mainPc, ran, exitCode>>

----------------------------------------------------------------------------
\* Bounds of the model

\* stream values are k / PrngModulus, k in 0 .. PrngModulus-1
PrngModulus == 16
\* seeds are drawn from 0 .. MaxSeed
MaxSeed == 2
\* next() calls per sampler instance in the sampler harness
MaxCalls == 3
\* copy candidates base-copy .. base-copy-<MaxCopy> may be taken independently
MaxCopy == 2
\* a long run of taken copy candidates: base-copy .. base-copy-<MaxCopyRun>
MaxCopyRun == 10
\* length up to which the probe log and the draw counter are recorded:
\* enough for the longest copy run
MaxLog == MaxCopyRun + 4

\* the range of the numeric suffix: Math.floor(nextRnd() * 100)
NumberRange == 100

SeedSpace == 0 .. MaxSeed

----------------------------------------------------------------------------
\* Strings

Lower == <<"a","b","c","d","e","f","g","h","i","j","k","l","m",
           "n","o","p","q","r","s","t","u","v","w","x","y","z">>
Upper == <<"A","B","C","D","E","F","G","H","I","J","K","L","M",
           "N","O","P","Q","R","S","T","U","V","W","X","Y","Z">>

\* String.prototype.toUpperCase on one character
ToUpperCase(c) ==
    IF \E k \in 1..Len(Lower) : Lower[k] = c
    THEN Upper[CHOOSE k \in 1..Len(Lower) : Lower[k] = c]
    ELSE c

Digits == <<"0","1","2","3","4","5","6","7","8","9">>

\* number -> string conversion of a non-negative integer (template literal,
\* string + number)
RECURSIVE NumberToString(_)
NumberToString(n) ==
    IF n < 10 THEN <<Digits[n + 1]>>
    ELSE NumberToString(n \div 10) \o <<Digits[(n % 10) + 1]>>

\* the value JavaScript yields for an out-of-range array read, as it prints
\* when concatenated into a string
Undefined == <<"undefined">>

----------------------------------------------------------------------------
\* Sequence helpers

StartsWith(s, pre) == Len(s) >= Len(pre) /\ SubSeq(s, 1, Len(pre)) = pre
EndsWith(s, suf) ==
    Len(s) >= Len(suf) /\ SubSeq(s, Len(s) - Len(suf) + 1, Len(s)) = suf

Entries(arr) == {arr[k] : k \in 1..Len(arr)}

----------------------------------------------------------------------------
\* Word lists (assets/names.json): two fixed, ordered, non-empty lists

adjectives == << <<"r","e","d">>, <<"b","I","g">>, <<"o","d","d">> >>
animals == << <<"o","x">>, <<"e","L","k">> >>

----------------------------------------------------------------------------
\* The seeded stream: randomSeeded(seed) returns a function whose successive
\* calls return the successive values of a stream that the seed determines.

\* the cursor of the stream right after randomSeeded(seed)
randomSeeded(seed) == seed % PrngModulus

\* one call of nextRnd(): the cursor moves on, the new cursor is the value
\* (a full-period linear congruential step)
nextRnd(rnd) == (5 * rnd + 3) % PrngModulus

\* Math.floor(value * n) for the stream value rnd / PrngModulus
FloorTimes(rnd, n) == (rnd * n) \div PrngModulus

----------------------------------------------------------------------------
\* RandomNameOptions: an optional field is [given, val]

Opt(g, v) == [given |-> g, val |-> v]

\* options.seed || <random>: 0n is falsy
SeedOr(o, d) == IF o.given /\ o.val # 0 THEN o.val ELSE d

\* options.separator || ' ': the empty string is falsy
SeparatorOr(o, d) == IF o.given /\ o.val # <<>> THEN o.val ELSE d

\* options.capitalize || false, options.addNumbers || false
FlagOr(o, d) == IF o.given /\ o.val THEN o.val ELSE d

\* new RandomName(options); mathRandom is the seed that
\* BigInt(Math.floor(Math.random() * Number.MAX_SAFE_INTEGER)) yields
NewRandomName(o, mathRandom) ==
    LET seed == SeedOr(o.seed, mathRandom) IN
    [ seed       |-> seed,
      nextRnd    |-> randomSeeded(seed),
      separator  |-> SeparatorOr(o.separator, <<" ">>),
      capitalize |-> FlagOr(o.capitalize, FALSE),
      addNumbers |-> FlagOr(o.addNumbers, FALSE) ]

\* pick with the index rounded up instead of down
pickRoundedUp(arr, rnd) ==
    LET idx == FloorTimes(rnd, Len(arr)) + 1 IN
    IF idx >= 0 /\ idx < Len(arr) THEN arr[idx + 1] ELSE Undefined

\* arr[Math.floor(value * arr.length)] for the stream value rnd
pick(arr, rnd) ==
    LET idx == FloorTimes(rnd, Len(arr)) IN
    IF idx >= 0 /\ idx < Len(arr) THEN arr[idx + 1] ELSE Undefined

\* capitalisation that uppercases the whole word: word.toUpperCase()
capitalizeWholeWord(word) == [k \in 1..Len(word) |-> ToUpperCase(word[k])]

\* word.charAt(0).toUpperCase() + word.slice(1)
capitalizeWord(word) ==
    IF word = <<>> THEN <<>> ELSE <<ToUpperCase(word[1])>> \o Tail(word)

\* the capitalize closure next() builds
capitalize(self, word) == IF self.capitalize THEN capitalizeWord(word) ELSE word

\* next() with the number drawn from [0, 1000)
nextWideNumber(self) ==
    LET r1 == nextRnd(self.nextRnd)
        r2 == nextRnd(r1)
        r3 == nextRnd(r2)
        name2 == capitalize(self, pick(adjectives, r1)) \o self.separator
                 \o capitalize(self, pick(animals, r2))
    IN  IF self.addNumbers
        THEN [ name |-> name2 \o self.separator
                        \o NumberToString(FloorTimes(r3, NumberRange * 10)),
               self |-> [self EXCEPT !.nextRnd = r3] ]
        ELSE [ name |-> name2,
               self |-> [self EXCEPT !.nextRnd = r2] ]

\* next() that leaves the cursor one value short, so that the value drawn
\* last is drawn again by the following call
nextRewind(self) ==
    LET r1 == nextRnd(self.nextRnd)
        r2 == nextRnd(r1)
        r3 == nextRnd(r2)
        name2 == capitalize(self, pick(adjectives, r1)) \o self.separator
                 \o capitalize(self, pick(animals, r2))
    IN  IF self.addNumbers
        THEN [ name |-> name2 \o self.separator
                        \o NumberToString(FloorTimes(r3, NumberRange)),
               self |-> [self EXCEPT !.nextRnd = r2] ]
        ELSE [ name |-> name2,
               self |-> [self EXCEPT !.nextRnd = r1] ]

\* RandomName.next(): the returned name and the object after the call
next(self) ==
    LET r1 == nextRnd(self.nextRnd)
        r2 == nextRnd(r1)
        r3 == nextRnd(r2)
        name2 == capitalize(self, pick(adjectives, r1)) \o self.separator
                 \o capitalize(self, pick(animals, r2))
    IN  IF self.addNumbers
        THEN [ name |-> name2 \o self.separator
                        \o NumberToString(FloorTimes(r3, NumberRange)),
               self |-> [self EXCEPT !.nextRnd = r3] ]
        ELSE [ name |-> name2,
               self |-> [self EXCEPT !.nextRnd = r2] ]

----------------------------------------------------------------------------
\* Sampler harness: two RandomName instances built from the same options,
\* each asked for names independently.

NoGen == [ seed |-> -1, nextRnd |-> -1, separator |-> <<>>,
           capitalize |-> FALSE, addNumbers |-> FALSE ]

Instances == {1, 2}

SeparatorChoices == { <<>>, <<"-">>, <<" ">>, <<"_","_">> }

OptionChoices ==
    [ seed       : {Opt(FALSE, 0)} \cup {Opt(TRUE, s) : s \in SeedSpace},
      separator  : {Opt(FALSE, <<>>)} \cup {Opt(TRUE, s) : s \in SeparatorChoices},
      capitalize : {Opt(FALSE, FALSE), Opt(TRUE, FALSE), Opt(TRUE, TRUE)},
      addNumbers : {Opt(FALSE, FALSE), Opt(TRUE, FALSE), Opt(TRUE, TRUE)} ]

\* the process has no exit code while it runs
NoExit == -1

\* main is not running in the sampler and resolver harnesses
MainIdle ==
    /\ optAdd = FALSE
    /\ optVscode = FALSE
    /\ mainPc = "idle"
    /\ ran = <<>>
    /\ exitCode = NoExit

\* the resolver is idle in the sampler harness
ResolverIdle ==
    /\ args = <<>>
    /\ copyArg = Opt(FALSE, <<>>)
    /\ options = [name |-> <<>>, copy |-> Opt(FALSE, <<>>)]
    /\ taken = {}
    /\ pc = "idle"
    /\ x = <<>>
    /\ i = 0
    /\ randomName = NoGen
    /\ projectName = <<>>
    /\ result = <<>>
    /\ probed = <<>>
    /\ draws = 0

SamplerInit ==
    /\ opts \in OptionChoices
    /\ gen = [g \in Instances |-> NoGen]
    /\ out = [g \in Instances |-> <<>>]
    /\ ResolverIdle
    /\ MainIdle

\* new RandomName(opts) for instance g
Construct(g) ==
    /\ gen[g] = NoGen
    /\ \E mathRandom \in SeedSpace :
           gen' = [gen EXCEPT ![g] = NewRandomName(opts, mathRandom)]
    /\ UNCHANGED <<opts, out>>
    /\ UNCHANGED resolverVars
    /\ UNCHANGED mainVars

\* gen[g].next()
CallNext(g) ==
    /\ gen[g] # NoGen
    /\ Len(out[g]) < MaxCalls
    /\ LET r == next(gen[g]) IN
           /\ gen' = [gen EXCEPT ![g] = r.self]
           /\ out' = [out EXCEPT ![g] = Append(@, r.name)]
    /\ UNCHANGED opts
    /\ UNCHANGED resolverVars
    /\ UNCHANGED mainVars

SamplerNext ==
    \/ \E g \in Instances : Construct(g)
    \/ \E g \in Instances : CallNext(g)

SpecSampler == SamplerInit /\ [][SamplerNext]_vars

----------------------------------------------------------------------------
\* The resolver: getOptions (the part that sets name and copy) followed by
\* getProjectName, against the entries that exist under root.

Foo == <<"f","o","o">>
Bar == <<"b">>

\* `${copy}-copy` for k = 0, `${copy}-copy-${k}` for k > 0
CopyName(base, k) ==
    IF k = 0 THEN base \o <<"-","c","o","p","y">>
    ELSE base \o <<"-","c","o","p","y","-">> \o NumberToString(k)

\* new RandomName({ separator: '-', addNumbers: true })
FreshOptions ==
    [ seed       |-> Opt(FALSE, 0),
      separator  |-> Opt(TRUE, <<"-">>),
      capitalize |-> Opt(FALSE, FALSE),
      addNumbers |-> Opt(TRUE, TRUE) ]

\* the name the m-th next() call of a fresh mode sampler with this seed returns
RECURSIVE AfterCalls(_, _)
AfterCalls(self, m) == IF m = 0 THEN self ELSE AfterCalls(next(self).self, m - 1)
FreshName(seed, m) == next(AfterCalls(NewRandomName(FreshOptions, seed), m - 1)).name

\* the whole name space of fresh mode: adjectives x animals x 100
AllNames ==
    {a \o <<"-">> \o b \o <<"-">> \o NumberToString(n) :
        a \in Entries(adjectives), b \in Entries(animals),
        n \in 0..(NumberRange - 1)}

\* entries that may or may not exist under root, independently of each other
TakenUniverse ==
    {Foo} \cup {CopyName(Foo, k) : k \in 0..MaxCopy}
          \cup {FreshName(s, m) : s \in SeedSpace, m \in 1..2}

TakenChoices ==
    (SUBSET TakenUniverse)
    \cup {{CopyName(Foo, k) : k \in 0..MaxCopyRun}}
    \cup {AllNames \cup {Foo}}

ArgsChoices == { <<>>, << <<>> >>, <<Foo>>, <<Bar, Foo>> }
CopyChoices == { Opt(FALSE, <<>>), Opt(TRUE, <<>>), Opt(TRUE, Foo), Opt(TRUE, Bar) }

SamplerIdle ==
    /\ opts = FreshOptions
    /\ gen = [g \in Instances |-> NoGen]
    /\ out = [g \in Instances |-> <<>>]

Init ==
    /\ args \in ArgsChoices
    /\ copyArg \in CopyChoices
    /\ taken \in TakenChoices
    /\ options = [name |-> <<>>, copy |-> Opt(FALSE, <<>>)]
    /\ pc = "getOptions"
    /\ x = <<>>
    /\ i = 0
    /\ randomName = NoGen
    /\ projectName = <<>>
    /\ result = <<>>
    /\ probed = <<>>
    /\ draws = 0
    /\ SamplerIdle
    /\ MainIdle

\* existsSync(`${options.root}/${name}`)
existsSync(name) == name \in taken

\* if (options.name), if (options.copy): the empty string and false are falsy
Truthy(str) == str # <<>>
TruthyCopy(c) == c.given /\ c.val # <<>>

\* the probe log and the draw counter stop recording at MaxLog
Logged(log, name) == IF Len(log) < MaxLog THEN Append(log, name) ELSE log
Counted(n) == IF n < MaxLog THEN n + 1 ELSE n

\* getOptions: name defaults to "", copy to false; the first positional
\* argument, when there is one, becomes options.name
getOptions ==
    /\ pc = "getOptions"
    /\ options' = [ name |-> IF Len(args) > 0 THEN args[1] ELSE <<>>,
                    copy |-> copyArg ]
    /\ pc' = "Start"
    /\ UNCHANGED <<args, copyArg, taken, x, i, randomName, projectName,
                   result, probed, draws>>
    /\ UNCHANGED samplerVars
    /\ UNCHANGED mainVars

\* if (options.name) { ...
EnterExplicit ==
    /\ pc = "Start"
    /\ Truthy(options.name)
    /\ pc' = "Explicit"
    /\ UNCHANGED <<args, copyArg, options, taken, x, i, randomName,
                   projectName, result, probed, draws>>
    /\ UNCHANGED samplerVars
    /\ UNCHANGED mainVars

\* ... return options.name; }
ReturnExplicit ==
    /\ pc = "Explicit"
    /\ result' = options.name
    /\ pc' = "Done"
    /\ UNCHANGED <<args, copyArg, options, taken, x, i, randomName,
                   projectName, probed, draws>>
    /\ UNCHANGED samplerVars
    /\ UNCHANGED mainVars

\* copy mode entered although a name is given
EnterCopyIgnoringName ==
    /\ pc = "Start"
    /\ TruthyCopy(options.copy)
    /\ x' = CopyName(options.copy.val, 0)
    /\ i' = 1
    /\ pc' = "Copy"
    /\ UNCHANGED <<args, copyArg, options, taken, randomName, projectName,
                   result, probed, draws>>
    /\ UNCHANGED samplerVars
    /\ UNCHANGED mainVars

\* if (options.copy) { let x = `${options.copy}-copy`; let i = 1;
EnterCopy ==
    /\ pc = "Start"
    /\ ~Truthy(options.name)
    /\ TruthyCopy(options.copy)
    /\ x' = CopyName(options.copy.val, 0)
    /\ i' = 1
    /\ pc' = "Copy"
    /\ UNCHANGED <<args, copyArg, options, taken, randomName, projectName,
                   result, probed, draws>>
    /\ UNCHANGED samplerVars
    /\ UNCHANGED mainVars

\* the copy loop with the counter never incremented
CopyProbeNoIncrement ==
    /\ pc = "Copy"
    /\ probed' = Logged(probed, x)
    /\ IF existsSync(x)
       THEN /\ x' = CopyName(options.copy.val, i)
            /\ i' = i
            /\ UNCHANGED <<pc, result>>
       ELSE /\ result' = x
            /\ pc' = "Done"
            /\ UNCHANGED <<x, i>>
    /\ UNCHANGED <<args, copyArg, options, taken, randomName, projectName, draws>>
    /\ UNCHANGED samplerVars
    /\ UNCHANGED mainVars

\* the copy loop with the counter bumped before it is used
CopyProbeBumpFirst ==
    /\ pc = "Copy"
    /\ probed' = Logged(probed, x)
    /\ IF existsSync(x)
       THEN /\ x' = CopyName(options.copy.val, i + 1)
            /\ i' = i + 1
            /\ UNCHANGED <<pc, result>>
       ELSE /\ result' = x
            /\ pc' = "Done"
            /\ UNCHANGED <<x, i>>
    /\ UNCHANGED <<args, copyArg, options, taken, randomName, projectName, draws>>
    /\ UNCHANGED samplerVars
    /\ UNCHANGED mainVars

\* while (existsSync(`${options.root}/${x}`)) { x = `${options.copy}-copy-${i}`;
\* i++; } return x;   -- one evaluation of the loop condition per step
CopyProbe ==
    /\ pc = "Copy"
    /\ probed' = Logged(probed, x)
    /\ IF existsSync(x)
       THEN /\ x' = CopyName(options.copy.val, i)
            /\ i' = i + 1
            /\ UNCHANGED <<pc, result>>
       ELSE /\ result' = x
            /\ pc' = "Done"
            /\ UNCHANGED <<x, i>>
    /\ UNCHANGED <<args, copyArg, options, taken, randomName, projectName, draws>>
    /\ UNCHANGED samplerVars
    /\ UNCHANGED mainVars

\* const randomName = new RandomName({ separator: '-', addNumbers: true });
\* let projectName = "";
EnterFresh ==
    /\ pc = "Start"
    /\ ~Truthy(options.name)
    /\ ~TruthyCopy(options.copy)
    /\ \E mathRandom \in SeedSpace :
           randomName' = NewRandomName(FreshOptions, mathRandom)
    /\ projectName' = <<>>
    /\ pc' = "Fresh"
    /\ UNCHANGED <<args, copyArg, options, taken, x, i, result, probed, draws>>
    /\ UNCHANGED samplerVars
    /\ UNCHANGED mainVars

\* the fresh loop leaving on a candidate that exists
FreshProbeInverted ==
    /\ pc = "Fresh"
    /\ LET r == next(randomName) IN
           /\ randomName' = r.self
           /\ projectName' = r.name
           /\ draws' = Counted(draws)
           /\ probed' = Logged(probed, r.name)
           /\ IF ~existsSync(r.name)
              THEN UNCHANGED <<pc, result>>
              ELSE /\ result' = r.name
                   /\ pc' = "Done"
    /\ UNCHANGED <<args, copyArg, options, taken, x, i>>
    /\ UNCHANGED samplerVars
    /\ UNCHANGED mainVars

\* the fresh loop giving up after three candidates
FreshProbeCapped ==
    /\ pc = "Fresh"
    /\ LET r == next(randomName) IN
           /\ randomName' = r.self
           /\ projectName' = r.name
           /\ draws' = Counted(draws)
           /\ probed' = Logged(probed, r.name)
           /\ IF existsSync(r.name) /\ draws < 2
              THEN UNCHANGED <<pc, result>>
              ELSE /\ result' = r.name
                   /\ pc' = "Done"
    /\ UNCHANGED <<args, copyArg, options, taken, x, i>>
    /\ UNCHANGED samplerVars
    /\ UNCHANGED mainVars

\* do { projectName = randomName.next(); }
\* while (existsSync(`${options.root}/${projectName}`)); return projectName;
\* -- one iteration of the loop per step
FreshProbe ==
    /\ pc = "Fresh"
    /\ LET r == next(randomName) IN
           /\ randomName' = r.self
           /\ projectName' = r.name
           /\ draws' = Counted(draws)
           /\ probed' = Logged(probed, r.name)
           /\ IF existsSync(r.name)
              THEN UNCHANGED <<pc, result>>
              ELSE /\ result' = r.name
                   /\ pc' = "Done"
    /\ UNCHANGED <<args, copyArg, options, taken, x, i>>
    /\ UNCHANGED samplerVars
    /\ UNCHANGED mainVars

Next ==
    \/ getOptions
    \/ EnterExplicit
    \/ ReturnExplicit
    \/ EnterCopy
    \/ CopyProbe
    \/ EnterFresh
    \/ FreshProbe

Spec == Init /\ [][Next]_vars

\* the call is synchronous and single-threaded: a step that can be taken is
\* taken
SpecFair == Init /\ [][Next]_vars /\ WF_vars(Next)

----------------------------------------------------------------------------
\* main: getOptions, ensureRoot, getProjectName, then either the copy or
\* deno init, deno add and the VSCode setup.  An external step either
\* succeeds or fails; a failure ends the process.

Ran(step, success) == [step |-> step, success |-> success]

\* entries under root at the start of main
MainTakenChoices == SUBSET {Foo, CopyName(Foo, 0), FreshName(0, 1)}

MainInit ==
    /\ args \in ArgsChoices
    /\ copyArg \in CopyChoices
    /\ taken \in MainTakenChoices
    /\ options = [name |-> <<>>, copy |-> Opt(FALSE, <<>>)]
    /\ pc = "getOptions"
    /\ x = <<>>
    /\ i = 0
    /\ randomName = NoGen
    /\ projectName = <<>>
    /\ result = <<>>
    /\ probed = <<>>
    /\ draws = 0
    /\ SamplerIdle
    /\ optAdd \in BOOLEAN
    /\ optVscode \in BOOLEAN
    /\ mainPc = "main"
    /\ ran = <<>>
    /\ exitCode = NoExit

\* const options = getOptions();
MainGetOptions ==
    /\ mainPc = "main"
    /\ getOptions

\* ensureRoot(options.root): Deno.mkdirSync, Deno.exit(1) when it throws
ensureRoot ==
    /\ mainPc = "main"
    /\ pc = "Start"
    /\ \E success \in BOOLEAN :
           /\ ran' = Append(ran, Ran("ensureRoot", success))
           /\ IF success
              THEN mainPc' = "getProjectName" /\ UNCHANGED exitCode
              ELSE mainPc' = "exit" /\ exitCode' = 1
    /\ UNCHANGED <<optAdd, optVscode>>
    /\ UNCHANGED resolverVars
    /\ UNCHANGED samplerVars

\* const projectName = getProjectName(options);
MainGetProjectName ==
    /\ mainPc = "getProjectName"
    /\ \/ EnterExplicit
       \/ ReturnExplicit
       \/ EnterCopy
       \/ CopyProbe
       \/ EnterFresh
       \/ FreshProbe

\* if (options.copy) { fs.copySync(root/copy, root/projectName); }
\* copySync throws when the source is missing or the destination exists;
\* the uncaught error ends the process with code 1
copyProject ==
    /\ mainPc = "getProjectName"
    /\ pc = "Done"
    /\ TruthyCopy(options.copy)
    /\ \E success \in BOOLEAN :
           /\ success => (existsSync(options.copy.val) /\ ~existsSync(result))
           /\ ran' = Append(ran, Ran("copy", success))
           /\ IF success
              THEN /\ taken' = taken \cup {result}
                   /\ mainPc' = "end"
                   /\ exitCode' = 0
              ELSE /\ mainPc' = "exit"
                   /\ exitCode' = 1
                   /\ UNCHANGED taken
    /\ UNCHANGED <<optAdd, optVscode>>
    /\ UNCHANGED <<args, copyArg, options, pc, x, i, randomName, projectName,
                   result, probed, draws>>
    /\ UNCHANGED samplerVars

\* initProject that only logs a failure and returns
initProjectNoExit ==
    /\ mainPc = "getProjectName"
    /\ pc = "Done"
    /\ ~TruthyCopy(options.copy)
    /\ \E success \in BOOLEAN :
           /\ ran' = Append(ran, Ran("init", success))
           /\ mainPc' = "addLibraries"
           /\ UNCHANGED exitCode
           /\ IF success THEN taken' = taken \cup {result} ELSE UNCHANGED taken
    /\ UNCHANGED <<optAdd, optVscode>>
    /\ UNCHANGED <<args, copyArg, options, pc, x, i, randomName, projectName,
                   result, probed, draws>>
    /\ UNCHANGED samplerVars

\* else { await initProject(projectName, options): deno init projectName in
\* root, Deno.exit(1) when it does not succeed
initProject ==
    /\ mainPc = "getProjectName"
    /\ pc = "Done"
    /\ ~TruthyCopy(options.copy)
    /\ \E success \in BOOLEAN :
           /\ ran' = Append(ran, Ran("init", success))
           /\ IF success
              THEN /\ taken' = taken \cup {result}
                   /\ mainPc' = "addLibraries"
                   /\ UNCHANGED exitCode
              ELSE /\ mainPc' = "exit"
                   /\ exitCode' = 1
                   /\ UNCHANGED taken
    /\ UNCHANGED <<optAdd, optVscode>>
    /\ UNCHANGED <<args, copyArg, options, pc, x, i, randomName, projectName,
                   result, probed, draws>>
    /\ UNCHANGED samplerVars

\* await addLibraries(options, fullPath): deno add ... when options.add has
\* libraries, Deno.exit(1) when it does not succeed
addLibraries ==
    /\ mainPc = "addLibraries"
    /\ IF optAdd
       THEN \E success \in BOOLEAN :
                /\ ran' = Append(ran, Ran("add", success))
                /\ IF success
                   THEN mainPc' = "created" /\ UNCHANGED exitCode
                   ELSE mainPc' = "exit" /\ exitCode' = 1
       ELSE /\ mainPc' = "created"
            /\ UNCHANGED <<ran, exitCode>>
    /\ UNCHANGED <<optAdd, optVscode>>
    /\ UNCHANGED resolverVars
    /\ UNCHANGED samplerVars

\* if (options.vscode) { await initVSCodeProject(fullPath); } } and main
\* returns; initVSCodeProject calls Deno.exit(1) when one of its steps fails
initVSCodeProject ==
    /\ mainPc = "created"
    /\ IF optVscode
       THEN \E success \in BOOLEAN :
                /\ ran' = Append(ran, Ran("vscode", success))
                /\ IF success
                   THEN mainPc' = "end" /\ exitCode' = 0
                   ELSE mainPc' = "exit" /\ exitCode' = 1
       ELSE /\ mainPc' = "end"
            /\ exitCode' = 0
            /\ UNCHANGED ran
    /\ UNCHANGED <<optAdd, optVscode>>
    /\ UNCHANGED resolverVars
    /\ UNCHANGED samplerVars

MainNext ==
    \/ MainGetOptions
    \/ ensureRoot
    \/ MainGetProjectName
    \/ copyProject
    \/ initProject
    \/ addLibraries
    \/ initVSCodeProject

SpecMain == MainInit /\ [][MainNext]_vars

----------------------------------------------------------------------------
\* Properties of main

Steps == [k \in 1..Len(ran) |-> ran[k].step]
HasRun(step) == \E k \in 1..Len(ran) : ran[k].step = step
Failed(step) == \E k \in 1..Len(ran) : ran[k].step = step /\ ~ran[k].success

\* C13: ensureRoot runs before getProjectName starts and getProjectName is
\* Done before any later step; with a copy base the only later step is the
\* copy, otherwise the later steps are deno init, deno add, VSCode setup in
\* this order; when deno init or deno add fails the process has exit code 1
\* and no step runs after it, so deno add (after a failed init) and the VSCode
\* setup never run.
C13_MainOrder ==
    /\ [](/\ (pc \in {"Explicit", "Copy", "Fresh", "Done"}) =>
                (Len(ran) >= 1 /\ ran[1] = Ran("ensureRoot", TRUE))
          /\ (Len(ran) >= 2) => (pc = "Done")
          /\ Steps \in { <<>>, <<"ensureRoot">>,
                         <<"ensureRoot", "copy">>,
                         <<"ensureRoot", "init">>,
                         <<"ensureRoot", "init", "add">>,
                         <<"ensureRoot", "init", "vscode">>,
                         <<"ensureRoot", "init", "add", "vscode">> }
          /\ HasRun("copy") => TruthyCopy(options.copy)
          /\ HasRun("init") => ~TruthyCopy(options.copy)
          /\ Failed("init") =>
                (exitCode = 1 /\ ~HasRun("add") /\ ~HasRun("vscode"))
          /\ Failed("add") => (exitCode = 1 /\ ~HasRun("vscode"))
          /\ (mainPc = "end" /\ ~TruthyCopy(options.copy)) =>
                /\ HasRun("init")
                /\ optAdd => HasRun("add")
                /\ optVscode => HasRun("vscode"))
    /\ [][exitCode = 1 => (exitCode' = 1 /\ ran' = ran)]_vars

\* deno add failed after a successful deno init, with the VSCode setup asked for
C13_Witness ==
    /\ optVscode
    /\ Steps = <<"ensureRoot", "init", "add">>
    /\ ran[2].success
    /\ Failed("add")
    /\ exitCode = 1
    /\ mainPc = "exit"

----------------------------------------------------------------------------
\* Properties of the resolver

\* the mode a call is in, by what the caller supplied
FreshMode == ~Truthy(options.name) /\ ~TruthyCopy(options.copy)
CopyMode == ~Truthy(options.name) /\ TruthyCopy(options.copy)
ExplicitMode == Truthy(options.name)

Last(log) == log[Len(log)]

\* C2: in fresh mode the returned name is the candidate probed last and it
\* does not exist under root, every candidate probed before it exists, and
\* when nothing exists under root the call returns the first name the sampler
\* yields after exactly one draw and one probe.
C2_FreshUnused ==
    (pc = "Done" /\ FreshMode) =>
        /\ ~existsSync(result)
        /\ Len(probed) >= 1
        /\ Len(probed) < MaxLog =>
               /\ result = Last(probed)
               /\ \A k \in 1..(Len(probed) - 1) : existsSync(probed[k])
        /\ taken = {} =>
               /\ draws = 1
               /\ probed = <<result>>
               /\ result = FreshName(randomName.seed, 1)

\* fresh mode returned its third candidate after two that exist
C2_Witness ==
    /\ pc = "Done"
    /\ FreshMode
    /\ draws = 3
    /\ Len(probed) = 3
    /\ result = FreshName(randomName.seed, 3)

\* C3: in copy mode the call probes base-copy, base-copy-1, base-copy-2, ...
\* in this order without skipping one, and returns the first of them that
\* does not exist under root.
C3_CopyFirstFree ==
    (CopyMode /\ pc \in {"Copy", "Done"}) =>
        LET base == options.copy.val IN
        /\ Len(probed) < MaxLog
        /\ \A k \in 1..Len(probed) : probed[k] = CopyName(base, k - 1)
        /\ pc = "Done" =>
               LET first == CHOOSE k \in 0..(MaxCopyRun + 2) :
                                /\ ~existsSync(CopyName(base, k))
                                /\ \A j \in 0..(k - 1) : existsSync(CopyName(base, j))
               IN  /\ result = CopyName(base, first)
                   /\ Len(probed) = first + 1
                   /\ i = IF first = 0 THEN 1 ELSE first + 1

\* the example of the specification: foo with foo-copy and foo-copy-1 taken
C3_Witness ==
    /\ pc = "Done"
    /\ CopyMode
    /\ options.copy.val = Foo
    /\ taken = {CopyName(Foo, 0), CopyName(Foo, 1)}
    /\ result = <<"f","o","o","-","c","o","p","y","-","2">>

\* C4 (as claimed): whenever the command line has a first positional
\* argument, whatever its value, the call returns exactly that argument,
\* probes nothing and draws nothing from the sampler.
C4_ExplicitAsGiven ==
    Len(args) > 0 =>
        /\ probed = <<>>
        /\ draws = 0
        /\ pc = "Done" => result = args[1]

\* C9: a call goes from Start into exactly one of Explicit, Copy and Fresh,
\* name before copy before fresh, stays in that branch until it is Done, and
\* stays Done; the Explicit branch never probes; there is no other state, and
\* a call in Copy or Fresh can always take its next probe.
C9_StateMachine ==
    /\ [](pc \in {"getOptions", "Start", "Explicit", "Copy", "Fresh", "Done"})
    /\ []((pc \in {"Copy"}) => ENABLED CopyProbe)
    /\ []((pc \in {"Fresh"}) => ENABLED FreshProbe)
    /\ [][ /\ pc = "Start" =>
                pc' = IF ExplicitMode THEN "Explicit"
                      ELSE IF TruthyCopy(options.copy) THEN "Copy" ELSE "Fresh"
           /\ pc \in {"Explicit", "Copy", "Fresh"} => pc' \in {pc, "Done"}
           /\ pc = "Explicit" => (pc' = "Done" /\ probed' = <<>> /\ draws' = 0)
           /\ pc = "Done" => pc' = "Done" ]_vars

\* a call with a name and a copy base has returned the name
C9_Witness ==
    /\ pc = "Done"
    /\ Truthy(options.name)
    /\ TruthyCopy(options.copy)
    /\ result = options.name
    /\ probed = <<>>

\* C10: in fresh mode a step draws one candidate and probes it; the call is
\* Done with that candidate exactly when it does not exist and is still in
\* the loop otherwise, however many candidates came before; so with the whole
\* name space taken the call is never Done.
C10_FreshUnbounded ==
    /\ []((FreshMode /\ AllNames \subseteq taken) => pc # "Done")
    /\ [][ pc = "Fresh" =>
              /\ projectName' = next(randomName).name
              /\ IF projectName' \in taken
                 THEN pc' = "Fresh" /\ result' = result
                 ELSE pc' = "Done" /\ result' = projectName' ]_vars

\* the loop is still running after MaxLog candidates, all of them taken
C10_Witness ==
    /\ pc = "Fresh"
    /\ AllNames \subseteq taken
    /\ draws = MaxLog
    /\ projectName \in taken

\* C11: copy mode terminates: a call in the copy loop eventually is Done with
\* a candidate that does not exist; while it loops the counter goes up by one
\* each time round and the next candidate has not been probed before.
C11_CopyTerminates ==
    /\ (pc = "Copy") ~> (pc = "Done" /\ CopyMode /\ ~existsSync(result))
    /\ [][ (pc = "Copy" /\ pc' = "Copy") =>
              /\ i' = i + 1
              /\ \A k \in 1..Len(probed') : probed'[k] # x' ]_vars

\* copy mode is Done after the long run of taken candidates
C11_Witness ==
    /\ pc = "Done"
    /\ CopyMode
    /\ i = MaxCopyRun + 2
    /\ Len(probed) = MaxCopyRun + 2
    /\ result = CopyName(Foo, MaxCopyRun + 1)

----------------------------------------------------------------------------
\* Helpers of the sampler properties

\* the separator the configuration asks for: the one it gives, or the
\* documented default of a single space when it gives none
ConfigSeparator == IF opts.separator.given THEN opts.separator.val ELSE <<" ">>
ConfigCapitalize == opts.capitalize.given /\ opts.capitalize.val
ConfigAddNumbers == opts.addNumbers.given /\ opts.addNumbers.val

\* a word with its first character uppercased and every other character kept
FirstUpper(w) == [k \in 1..Len(w) |-> IF k = 1 THEN ToUpperCase(w[1]) ELSE w[k]]
ConfigWord(w) == IF ConfigCapitalize THEN FirstUpper(w) ELSE w

\* the names "adjective sep animal" and "adjective sep animal sep n"
TwoWordNames(sep) ==
    {ConfigWord(a) \o sep \o ConfigWord(b) :
        a \in Entries(adjectives), b \in Entries(animals)}
NumberedNames(sep) ==
    {w \o sep \o NumberToString(n) :
        w \in TwoWordNames(sep), n \in 0..(NumberRange - 1)}

Produced == UNION {{out[g][k] : k \in 1..Len(out[g])} : g \in Instances}

\* C1 (as claimed): two instances constructed with the same options that give
\* a seed, the seed 0 included, return the same name on their n-th next()
\* call, for every n both have made.
C1_SameSeedSameNames ==
    opts.seed.given =>
        \A n \in 1..MaxCalls :
            (n <= Len(out[1]) /\ n <= Len(out[2])) => out[1][n] = out[2][n]

\* C5: with addNumbers every returned name ends with the separator followed
\* by an integer in [0, 100), which for the latest name is floor(value * 100)
\* of the stream value drawn last; without addNumbers a returned name is just
\* adjective, separator, animal.
C5_NumberSuffix ==
    \A g \in Instances :
        \A k \in 1..Len(out[g]) :
            IF ConfigAddNumbers
            THEN /\ \E n \in 0..99 :
                        EndsWith(out[g][k], gen[g].separator \o NumberToString(n))
                 /\ (k = Len(out[g])) =>
                        (/\ (gen[g].nextRnd * 100) \div PrngModulus \in 0..99
                         /\ EndsWith(out[g][k], gen[g].separator \o
                               NumberToString((gen[g].nextRnd * 100) \div PrngModulus)))
            ELSE out[g][k] \in TwoWordNames(gen[g].separator)

C5_Witness ==
    /\ ConfigAddNumbers
    /\ Len(out[1]) = MaxCalls
    /\ \E k \in 1..Len(out[1]) : \E n \in 10..99 :
           EndsWith(out[1][k], gen[1].separator \o NumberToString(n))
    /\ \E k \in 1..Len(out[1]) : \E n \in 0..9 :
           EndsWith(out[1][k], gen[1].separator \o NumberToString(n))

\* C6 (as claimed): whatever separator string the configuration gives, the
\* empty string included, the parts of every returned name are joined with
\* exactly that string.
C6_SeparatorAsGiven ==
    opts.separator.given =>
        \A name \in Produced :
            IF ConfigAddNumbers
            THEN name \in NumberedNames(opts.separator.val)
            ELSE name \in TwoWordNames(opts.separator.val)

\* C7: a next() call returns a name that starts with the drawn adjective, the
\* separator and the drawn animal, where with capitalize each of the two words
\* has its first character uppercased and all its other characters as in the
\* list, and without capitalize each is the list entry unchanged.
C7_Capitalize ==
    [][\A g \in Instances :
          Len(out'[g]) = Len(out[g]) + 1 =>
              LET r1 == nextRnd(gen[g].nextRnd)
                  r2 == nextRnd(r1)
                  a == adjectives[((r1 * Len(adjectives)) \div PrngModulus) + 1]
                  b == animals[((r2 * Len(animals)) \div PrngModulus) + 1]
                  name == out'[g][Len(out'[g])]
              IN  IF ConfigCapitalize
                  THEN StartsWith(name, FirstUpper(a) \o gen[g].separator) /\
                       IF ConfigAddNumbers
                       THEN StartsWith(name, FirstUpper(a) \o gen[g].separator
                                \o FirstUpper(b) \o gen[g].separator)
                       ELSE name = FirstUpper(a) \o gen[g].separator \o FirstUpper(b)
                  ELSE IF ConfigAddNumbers
                       THEN StartsWith(name, a \o gen[g].separator
                                \o b \o gen[g].separator)
                       ELSE name = a \o gen[g].separator \o b]_vars

\* a capitalised name of words that have an uppercase letter inside
C7_Witness ==
    /\ ConfigCapitalize
    /\ \E g \in Instances : \E k \in 1..Len(out[g]) :
           StartsWith(out[g][k], <<"B","I","g">> \o gen[g].separator \o <<"E","L","k">>)

\* C8: the index pick computes is within the list for every stream value, so
\* every returned name is made of an entry of the adjective list and an entry
\* of the animal list, and never of undefined.
C8_WordsFromLists ==
    /\ \A g \in Instances :
           gen[g] # NoGen =>
               /\ (nextRnd(gen[g].nextRnd) * Len(adjectives)) \div PrngModulus
                      \in 0..(Len(adjectives) - 1)
               /\ (nextRnd(gen[g].nextRnd) * Len(animals)) \div PrngModulus
                      \in 0..(Len(animals) - 1)
    /\ \A g \in Instances : \A k \in 1..Len(out[g]) :
           /\ out[g][k] \in (IF ConfigAddNumbers
                             THEN NumberedNames(gen[g].separator)
                             ELSE TwoWordNames(gen[g].separator))
           /\ \A p \in 1..Len(out[g][k]) : out[g][k][p] # "undefined"

\* names of the last entry of each list have been returned
C8_Witness ==
    \E g \in Instances : \E k \in 1..Len(out[g]) :
        /\ ~ConfigCapitalize
        /\ StartsWith(out[g][k], adjectives[Len(adjectives)] \o gen[g].separator
                                   \o animals[Len(animals)])
        /\ Len(out[g]) = MaxCalls

\* the n-th value of the stream of a seed (n = 0: the cursor before any draw)
RECURSIVE StreamAt(_, _)
StreamAt(seed, n) == IF n = 0 THEN randomSeeded(seed) ELSE nextRnd(StreamAt(seed, n - 1))

\* stream values one next() call consumes
PerCall == IF ConfigAddNumbers THEN 3 ELSE 2

\* the entry of a list that a stream value selects
WordAt(arr, v) == arr[((v * Len(arr)) \div PrngModulus) + 1]

\* C12: next() changes only the stream cursor (seed, separator, capitalize and
\* addNumbers stay as constructed), and the k-th call consumes the stream
\* values number PerCall*(k-1)+1 .. PerCall*k of the seed, the first for the
\* adjective, the second for the animal and the third, with addNumbers, for
\* the number; so no value is consumed by two calls.
C12_OnlyCursorMoves ==
    /\ [](\A g \in Instances :
            gen[g] # NoGen =>
              /\ gen[g].nextRnd = StreamAt(gen[g].seed, PerCall * Len(out[g]))
              /\ \A k \in 1..Len(out[g]) :
                   LET at == PerCall * (k - 1)
                       two == ConfigWord(WordAt(adjectives, StreamAt(gen[g].seed, at + 1)))
                              \o gen[g].separator
                              \o ConfigWord(WordAt(animals, StreamAt(gen[g].seed, at + 2)))
                   IN  out[g][k] =
                         IF ConfigAddNumbers
                         THEN two \o gen[g].separator \o NumberToString(
                                (StreamAt(gen[g].seed, at + 3) * 100) \div PrngModulus)
                         ELSE two)
    /\ [][\A g \in Instances :
            gen[g] # NoGen =>
              /\ gen'[g].seed = gen[g].seed
              /\ gen'[g].separator = gen[g].separator
              /\ gen'[g].capitalize = gen[g].capitalize
              /\ gen'[g].addNumbers = gen[g].addNumbers]_vars

\* an instance with addNumbers has made all its calls and its cursor has moved
C12_Witness ==
    \E g \in Instances :
        /\ ConfigAddNumbers
        /\ Len(out[g]) = MaxCalls
        /\ gen[g].nextRnd = StreamAt(gen[g].seed, 3 * MaxCalls)
        /\ gen[g].nextRnd # randomSeeded(gen[g].seed)
        /\ out[g][1] # out[g][2]

====
